---- MODULE Spec2Model ----
(***************************************************************************)
(* ProductGenius: relevance-ranked search over products and reviews        *)
(* (product_genius.py: find_products, find_reviews) and the account        *)
(* handlers that check a table and then write it (update_favorite_product, *)
(* update_favorite_review, register_user).                                 *)
(*                                                                         *)
(* Texts are sequences of words.  A raw query is a sequence of chunks,     *)
(* each a single space or a word.  Relevancy is kept in tenths, so the     *)
(* weight 0.4 is 4 and the weight 1.0 is 10.                               *)
(***************************************************************************)
EXTENDS Integers, Sequences, FiniteSets, TLC

VARIABLES
    products,            \* products table: asin -> [title, description]
    categories,          \* categories table: set of cat_name
    product_categories,  \* product_categories table: set of [asin, cat_name]
    reviews,             \* reviews table: review_id -> [asin, summary, review]
    call,                \* the search call last made
    result,              \* what that call returned (or raised)
    prevResult,          \* result of the call before it, when it was the same call
    users,               \* users table: set of [user_id, email]
    favorite_products,   \* favorite_products table: set of [id, user_id, asin]
    favorite_reviews,    \* favorite_reviews table: set of [id, user_id, review_id]
    nextId,              \* autoincrement counters of the three tables
    pc,                  \* per request: position in its handler
    req,                 \* per request: the handler's arguments
    response,            \* per request: the value returned (or the exception raised)
    before,              \* per request: rows of the pair / email when the call began
    started              \* number of account requests begun

searchVars == <<call, result, prevResult>>
storeVars == <<products, categories, product_categories, reviews>>
accountVars == <<users, favorite_products, favorite_reviews, nextId,
                 pc, req, response, before, started>>
vars == <<storeVars, searchVars, accountVars>>

-----------------------------------------------------------------------------
(* Bounds *)

MaxQueryLen == 4
MaxCalls == 4

-----------------------------------------------------------------------------
(* Text search: the 'english' configuration used by to_tsvector/to_tsquery *)

Words == {"the", "run", "running", "mouse"}

StopWords == {"the"}

Stem(w) ==
    CASE w = "running" -> "run"
      [] w = "mouse" -> "mous"
      [] OTHER -> w

\* Lexemes of a text: stop words dropped, the rest stemmed.
Lexemes(text) == {Stem(text[i]) : i \in {j \in DOMAIN text : text[j] \notin StopWords}}

\* Number of occurrences of lexeme l in a text.
Occ(text, l) ==
    Cardinality({i \in DOMAIN text : text[i] \notin StopWords /\ Stem(text[i]) = l})

\* setweight(to_tsvector(a), 'A') || setweight(to_tsvector(b), 'B')
WeightedVector(a, b) == [A |-> a, B |-> b]

VectorLexemes(v) == Lexemes(v.A) \cup Lexemes(v.B)

-----------------------------------------------------------------------------
(* Query formatting: words = query.strip().split(' ') *)

Min(S) == CHOOSE x \in S : \A y \in S : x <= y
Max(S) == CHOOSE x \in S : \A y \in S : x >= y

\* str.strip(): leading and trailing spaces removed.
Strip(s) ==
    LET idx == {i \in DOMAIN s : s[i] # " "}
    IN  IF idx = {} THEN <<>> ELSE SubSeq(s, Min(idx), Max(idx))

\* str.split(' '): a new word at every single space; never an empty list.
RECURSIVE Split(_)
Split(s) ==
    IF s = <<>> THEN <<"">>
    ELSE LET rest == Split(Tail(s))
         IN  IF Head(s) = " " THEN <<"">> \o rest
             ELSE <<Head(s) \o Head(rest)>> \o Tail(rest)

QueryWords(query) == Split(Strip(query))

\* to_tsquery('english', ' & '.join(words)).  The empty string parses to the
\* empty query; an empty operand between two & is a syntax error; stop words
\* are dropped from the query and the other words are stemmed.
ToTsQuery(words) ==
    IF words = <<"">> THEN [error |-> FALSE, lexemes |-> {}]
    ELSE IF \E i \in DOMAIN words : words[i] = ""
         THEN [error |-> TRUE, lexemes |-> {}]
         ELSE [error |-> FALSE, lexemes |-> Lexemes(words)]

\* Faulty variant: a query without lexemes matches every document.
EmptyQueryMatchesAll(v, q) == \A l \in q.lexemes : l \in VectorLexemes(v)

\* Faulty variant: the terms are joined with | instead of &.
AnyTermMatches(v, q) == \E l \in q.lexemes : l \in VectorLexemes(v)

\* tsvector @@ tsquery: an empty query matches nothing; otherwise every
\* lexeme of the query must be in the vector.
TsMatch(v, q) == q.lexemes # {} /\ \A l \in q.lexemes : l \in VectorLexemes(v)

-----------------------------------------------------------------------------
(* Ranking.  A weight array is {D, C, B, A}, as ts_rank takes it. *)

DefaultWeights == <<1, 2, 4, 10>>

ProductWeights == DefaultWeights

ReviewWeights == <<0, 0, 8, 10>>

RECURSIVE SumOver(_, _)
SumOver(S, f) ==
    IF S = {} THEN 0
    ELSE LET x == CHOOSE y \in S : TRUE IN f[x] + SumOver(S \ {x}, f)

\* ts_rank(weights, vector, query): weighted count of the occurrences of the
\* query's lexemes, an occurrence in field A counting weights[4] and one in
\* field B counting weights[3].  This keeps what the statements rely on (the
\* rank grows with the weight of the field a term occurs in and is a function
\* of the document and the query alone), not the database's exact formula.
TsRank(w, v, q) ==
    SumOver(q.lexemes, [l \in q.lexemes |-> w[4] * Occ(v.A, l) + w[3] * Occ(v.B, l)])

-----------------------------------------------------------------------------
(* ORDER BY relevancy DESC: every order of the rows the clause allows. *)

Orders(rows) ==
    {s \in [1..Cardinality(rows) -> rows] : \A i, j \in DOMAIN s : i # j => s[i] # s[j]}

\* Faulty variant: ORDER BY relevancy (ascending).
OrderByRelevancyAsc(rows) ==
    {s \in Orders(rows) : \A i \in 1..(Len(s) - 1) : s[i].relevancy <= s[i + 1].relevancy}

\* Faulty variant: no ORDER BY clause.
Unordered(rows) == Orders(rows)

\* ORDER BY relevancy DESC; the order among equal relevancies is not fixed.
OrderByRelevancyDesc(rows) ==
    {s \in Orders(rows) : \A i \in 1..(Len(s) - 1) : s[i].relevancy >= s[i + 1].relevancy}

-----------------------------------------------------------------------------
(* The store the searches read *)

Asins == {"p1", "p2"}

ReviewIds == {1, 2}

CatNames == {"Books", "Electronics"}

\* (primary text, secondary text) of the documents the stores are built from
DocPool ==
    { [A |-> <<"mouse">>, B |-> <<>>],
      [A |-> <<"the", "run">>, B |-> <<"mouse">>],
      [A |-> <<"running">>, B |-> <<"running", "mouse">>],
      [A |-> <<"the">>, B |-> <<"the">>] }

ProductRow(d) == [title |-> d.A, description |-> d.B]

ReviewRow(a, d) == [asin |-> a, summary |-> d.A, review |-> d.B]

FixedDoc == [A |-> <<"mouse">>, B |-> <<>>]

\* load_products: a category row exists exactly for the categories some
\* product lists, and every product_categories row names such a category.
SeededCategories(pcs) == {r.cat_name : r \in pcs}

ProductStores ==
    /\ products \in [Asins -> {ProductRow(d) : d \in DocPool}]
    /\ product_categories \in
          {l \in SUBSET [asin : Asins, cat_name : CatNames] : Cardinality(l) <= 2}
    /\ categories = SeededCategories(product_categories)
    /\ reviews = [r \in ReviewIds |-> ReviewRow("p1", FixedDoc)]

ReviewStores ==
    /\ products = [a \in Asins |-> ProductRow(FixedDoc)]
    /\ product_categories = {}
    /\ categories = {}
    /\ reviews \in [ReviewIds -> {ReviewRow(a, d) : a \in Asins, d \in DocPool}]

-----------------------------------------------------------------------------
(* Search calls *)

\* Words a query is typed from.
QueryVocabulary == {"the", "running", "mouse"}

Chunks == {" "} \cup QueryVocabulary

\* Raw query strings: words separated, preceded or followed by spaces.
Queries ==
    UNION {{s \in [1..n -> Chunks] :
                \A i \in 1..(n - 1) : s[i] = " " \/ s[i + 1] = " "} : n \in 0..MaxQueryLen}

Indexes == {"All"} \cup CatNames

NoResult == [status |-> "none", rows |-> <<>>, terms |-> <<>>, statements |-> 0]

NoCall == [fn |-> "none"]

\* Faulty variant: the WHERE pc.cat_name = :category condition is missing.
AnyCategory(category) ==
    {r.asin : r \in {x \in product_categories :
                        x.cat_name \in categories /\ x.asin \in DOMAIN products}}

\* Faulty variant: a category that is not in the table filters nothing.
UnknownCategoryUnfiltered(category) ==
    IF category \in categories
    THEN {r.asin : r \in {x \in product_categories :
                        /\ x.cat_name \in categories
                        /\ x.asin \in DOMAIN products
                        /\ x.cat_name = category}}
    ELSE DOMAIN products

\* asin IN (SELECT asin FROM categories INNER JOIN product_categories pc
\* USING (cat_name) INNER JOIN products USING (asin) WHERE pc.cat_name = :category)
CategoryAsins(category) ==
    {r.asin : r \in {x \in product_categories :
                        /\ x.cat_name \in categories
                        /\ x.asin \in DOMAIN products
                        /\ x.cat_name = category}}

ProductInfo(a) == WeightedVector(products[a].title, products[a].description)

ReviewInfo(r) == WeightedVector(reviews[r].summary, reviews[r].review)

\* Rows the product statement selects, before ORDER BY.
ProductRows(q, index) ==
    LET candidates == IF index = "All" THEN DOMAIN products
                      ELSE DOMAIN products \cap CategoryAsins(index)
    IN  {[id |-> a, relevancy |-> TsRank(ProductWeights, ProductInfo(a), q)] :
            a \in {c \in candidates : TsMatch(ProductInfo(c), q)}}

\* Rows the review statement selects, before ORDER BY.
ReviewRows(q, asin) ==
    {[id |-> r, relevancy |-> TsRank(ReviewWeights, ReviewInfo(r), q)] :
        r \in {c \in DOMAIN reviews :
                  reviews[c].asin = asin /\ TsMatch(ReviewInfo(c), q)}}

\* db.session.execute(sql, ...).fetchall(): the statement is always sent; a
\* malformed tsquery makes it raise.
Execute(words, q, rows) ==
    IF q.error
    THEN {[status |-> "ProgrammingError", rows |-> <<>>, terms |-> words, statements |-> 1]}
    ELSE {[status |-> "ok", rows |-> s, terms |-> words, statements |-> 1] :
            s \in OrderByRelevancyDesc(rows)}

Record(c, r) ==
    /\ prevResult' = IF call = c THEN result ELSE NoResult
    /\ call' = c
    /\ result' = r

find_products(query, index) ==
    LET words == QueryWords(query)
        q == ToTsQuery(words)
    IN  /\ \E r \in Execute(words, q, ProductRows(q, index)) :
              Record([fn |-> "find_products", query |-> query, index |-> index], r)
        /\ UNCHANGED <<storeVars, accountVars>>

find_reviews(asin, query) ==
    LET words == QueryWords(query)
        q == ToTsQuery(words)
    IN  /\ \E r \in Execute(words, q, ReviewRows(q, asin)) :
              Record([fn |-> "find_reviews", query |-> query, asin |-> asin], r)
        /\ UNCHANGED <<storeVars, accountVars>>

\* A search reads the store and nothing an earlier search left behind, so a
\* behaviour makes one call and then repeats that same call.
FirstOrSame(c) == call = NoCall \/ call = c

FindProducts ==
    \E query \in Queries, index \in Indexes :
        /\ FirstOrSame([fn |-> "find_products", query |-> query, index |-> index])
        /\ find_products(query, index)

FindReviews ==
    \E asin \in Asins, query \in Queries :
        /\ FirstOrSame([fn |-> "find_reviews", query |-> query, asin |-> asin])
        /\ find_reviews(asin, query)

-----------------------------------------------------------------------------
(* Account handlers.  Each runs in its own request: the count() query is one
   step and the branch it selects, up to its commit, is another; requests
   may interleave between the two. *)

Requests == {1, 2}

FavUsers == {1, 2}

FavAsins == {"p1"}

FavReviewIds == {1}

Emails == {"ann@example.com", "bob@example.com", "cy@example.com"}

\* create_users: the users the seed script leaves in the table.
SeededUsers ==
    { [user_id |-> 1, email |-> "ann@example.com"],
      [user_id |-> 2, email |-> "bob@example.com"] }

ProductFavorites(u, a) == {f \in favorite_products : f.user_id = u /\ f.asin = a}

ReviewFavorites(u, r) == {f \in favorite_reviews : f.user_id = u /\ f.review_id = r}

UsersWithEmail(e) == {u \in users : u.email = e}

Begin(p, r, n) ==
    /\ pc[p] = "idle"
    /\ started < MaxCalls
    /\ started' = started + 1
    /\ req' = [req EXCEPT ![p] = r]
    /\ before' = [before EXCEPT ![p] = n]

Return(p, v) ==
    /\ response' = [response EXCEPT ![p] = v]
    /\ pc' = [pc EXCEPT ![p] = "idle"]
    /\ UNCHANGED <<req, before, started>>

\* update_favorite_product: favorite.count()
update_favorite_product_count(p, user_id, asin) ==
    LET n == Cardinality(ProductFavorites(user_id, asin))
    IN  /\ Begin(p, [fn |-> "update_favorite_product", user_id |-> user_id,
                     item |-> asin, count |-> n], n)
        /\ pc' = [pc EXCEPT ![p] = "counted"]
        /\ response' = [response EXCEPT ![p] = "none"]
        /\ UNCHANGED <<users, favorite_products, favorite_reviews, nextId>>

\* update_favorite_product: the count() == 0 branch
update_favorite_product_add(p) ==
    /\ pc[p] = "counted"
    /\ req[p].fn = "update_favorite_product"
    /\ req[p].count = 0
    /\ favorite_products' = favorite_products \cup
          {[id |-> nextId.favorite_products, user_id |-> req[p].user_id,
            asin |-> req[p].item]}
    /\ nextId' = [nextId EXCEPT !.favorite_products = @ + 1]
    /\ Return(p, "Favorited")
    /\ UNCHANGED <<users, favorite_reviews>>

\* update_favorite_product: the else branch; favorite.one() raises unless the
\* query now selects exactly one row.
update_favorite_product_delete(p) ==
    /\ pc[p] = "counted"
    /\ req[p].fn = "update_favorite_product"
    /\ req[p].count # 0
    /\ LET rows == ProductFavorites(req[p].user_id, req[p].item)
       IN  IF Cardinality(rows) = 1
           THEN /\ favorite_products' = favorite_products \ rows
                /\ Return(p, "Unfavorited")
           ELSE /\ favorite_products' = favorite_products
                /\ Return(p, IF rows = {} THEN "NoResultFound"
                             ELSE "MultipleResultsFound")
    /\ UNCHANGED <<users, favorite_reviews, nextId>>

\* update_favorite_review: favorite.count()
update_favorite_review_count(p, user_id, review_id) ==
    LET n == Cardinality(ReviewFavorites(user_id, review_id))
    IN  /\ Begin(p, [fn |-> "update_favorite_review", user_id |-> user_id,
                     item |-> review_id, count |-> n], n)
        /\ pc' = [pc EXCEPT ![p] = "counted"]
        /\ response' = [response EXCEPT ![p] = "none"]
        /\ UNCHANGED <<users, favorite_products, favorite_reviews, nextId>>

\* update_favorite_review: the count() == 0 branch
update_favorite_review_add(p) ==
    /\ pc[p] = "counted"
    /\ req[p].fn = "update_favorite_review"
    /\ req[p].count = 0
    /\ favorite_reviews' = favorite_reviews \cup
          {[id |-> nextId.favorite_reviews, user_id |-> req[p].user_id,
            review_id |-> req[p].item]}
    /\ nextId' = [nextId EXCEPT !.favorite_reviews = @ + 1]
    /\ Return(p, "Favorited")
    /\ UNCHANGED <<users, favorite_products>>

\* update_favorite_review: the else branch
update_favorite_review_delete(p) ==
    /\ pc[p] = "counted"
    /\ req[p].fn = "update_favorite_review"
    /\ req[p].count # 0
    /\ LET rows == ReviewFavorites(req[p].user_id, req[p].item)
       IN  IF Cardinality(rows) = 1
           THEN /\ favorite_reviews' = favorite_reviews \ rows
                /\ Return(p, "Unfavorited")
           ELSE /\ favorite_reviews' = favorite_reviews
                /\ Return(p, IF rows = {} THEN "NoResultFound"
                             ELSE "MultipleResultsFound")
    /\ UNCHANGED <<users, favorite_products, nextId>>

\* register_user: the count() query; an email already there returns at once.
register_user_count(p, email) ==
    LET n == Cardinality(UsersWithEmail(email))
    IN  /\ Begin(p, [fn |-> "register_user", email |-> email, count |-> n], n)
        /\ pc' = [pc EXCEPT ![p] = IF n # 0 THEN "idle" ELSE "counted"]
        /\ response' = [response EXCEPT ![p] = IF n # 0 THEN "That email already exists"
                                                  ELSE "none"]
        /\ UNCHANGED <<users, favorite_products, favorite_reviews, nextId>>

\* register_user: the else branch
register_user_add(p) ==
    /\ pc[p] = "counted"
    /\ req[p].fn = "register_user"
    /\ users' = users \cup {[user_id |-> nextId.users, email |-> req[p].email]}
    /\ nextId' = [nextId EXCEPT !.users = @ + 1]
    /\ Return(p, "Welcome to ProductGenius")
    /\ UNCHANGED <<favorite_products, favorite_reviews>>

UpdateFavoriteProductCount ==
    \E p \in Requests, u \in FavUsers, a \in FavAsins :
        update_favorite_product_count(p, u, a) /\ UNCHANGED <<storeVars, searchVars>>

UpdateFavoriteProductAdd ==
    \E p \in Requests : update_favorite_product_add(p) /\ UNCHANGED <<storeVars, searchVars>>

UpdateFavoriteProductDelete ==
    \E p \in Requests : update_favorite_product_delete(p) /\ UNCHANGED <<storeVars, searchVars>>

UpdateFavoriteReviewCount ==
    \E p \in Requests, u \in FavUsers, r \in FavReviewIds :
        update_favorite_review_count(p, u, r) /\ UNCHANGED <<storeVars, searchVars>>

UpdateFavoriteReviewAdd ==
    \E p \in Requests : update_favorite_review_add(p) /\ UNCHANGED <<storeVars, searchVars>>

UpdateFavoriteReviewDelete ==
    \E p \in Requests : update_favorite_review_delete(p) /\ UNCHANGED <<storeVars, searchVars>>

RegisterUserCount ==
    \E p \in Requests, e \in Emails :
        register_user_count(p, e) /\ UNCHANGED <<storeVars, searchVars>>

RegisterUserAdd ==
    \E p \in Requests : register_user_add(p) /\ UNCHANGED <<storeVars, searchVars>>

-----------------------------------------------------------------------------
(* Specifications *)

AccountsInit ==
    /\ users = SeededUsers
    /\ favorite_products = {}
    /\ favorite_reviews = {}
    /\ nextId = [users |-> Cardinality(SeededUsers) + 1,
                 favorite_products |-> 1, favorite_reviews |-> 1]
    /\ pc = [p \in Requests |-> "idle"]
    /\ req = [p \in Requests |-> NoCall]
    /\ response = [p \in Requests |-> "none"]
    /\ before = [p \in Requests |-> 0]
    /\ started = 0

SearchIdle ==
    /\ call = NoCall
    /\ result = NoResult
    /\ prevResult = NoResult

\* The searches, over every store of the pools.
Init ==
    /\ ProductStores \/ ReviewStores
    /\ SearchIdle
    /\ AccountsInit

Next == FindProducts \/ FindReviews

Spec == Init /\ [][Next]_vars

\* The account handlers, over one store.
InitAccounts ==
    /\ products = [a \in Asins |-> ProductRow(FixedDoc)]
    /\ product_categories = {}
    /\ categories = {}
    /\ reviews = [r \in ReviewIds |-> ReviewRow("p1", FixedDoc)]
    /\ SearchIdle
    /\ AccountsInit

NextAccounts ==
    \/ UpdateFavoriteProductCount
    \/ UpdateFavoriteProductAdd
    \/ UpdateFavoriteProductDelete
    \/ UpdateFavoriteReviewCount
    \/ UpdateFavoriteReviewAdd
    \/ UpdateFavoriteReviewDelete
    \/ RegisterUserCount
    \/ RegisterUserAdd

SpecAccounts == InitAccounts /\ [][NextAccounts]_vars

-----------------------------------------------------------------------------
(* Properties of the searches *)

Searched == result.status # "none"

Returned == {result.rows[i].id : i \in DOMAIN result.rows}

CallWords == QueryWords(call.query)

Blank(query) == Strip(query) = <<>>

\* The documents the call's statement ranges over, and their vectors.
Candidates ==
    IF call.fn = "find_products"
    THEN IF call.index = "All" THEN DOMAIN products
         ELSE {a \in DOMAIN products :
                  [asin |-> a, cat_name |-> call.index] \in product_categories}
    ELSE {r \in DOMAIN reviews : reviews[r].asin = call.asin}

Info(c) == IF call.fn = "find_products" THEN ProductInfo(c) ELSE ReviewInfo(c)

\* C1: the rows a search returns are in non-increasing order of relevancy.
C1_SortedByRelevancy ==
    Searched =>
        \A i \in 1..(Len(result.rows) - 1) :
            result.rows[i].relevancy >= result.rows[i + 1].relevancy

C1_Witness ==
    /\ result.status = "ok"
    /\ Len(result.rows) >= 2
    /\ result.rows[1].relevancy > result.rows[2].relevancy

\* A term occurs in a document when it is one of the document's words, or
\* when its lexeme is one of the document's lexemes.
TermOccurs(t, v) ==
    \/ \E i \in DOMAIN v.A : v.A[i] = t
    \/ \E i \in DOMAIN v.B : v.B[i] = t
    \/ t # "" /\ t \notin StopWords /\ Stem(t) \in VectorLexemes(v)

\* C2 as stated: for a non-blank query a candidate document is returned
\* exactly when every word of query.strip().split(' ') occurs in it.
C2_Original ==
    (Searched /\ ~Blank(call.query)) =>
        \A c \in Candidates :
            (c \in Returned) <=>
                (\A i \in DOMAIN CallWords : TermOccurs(CallWords[i], Info(c)))

\* C2 amended: a query with an empty word returns no document (the statement
\* raises); otherwise a candidate is returned exactly when the query has a
\* word that is not a stop word and the stem of every such word is among the
\* stems of the document's non-stop words.
C2_Conjunctive ==
    Searched =>
        IF Len(CallWords) > 1 /\ (\E i \in DOMAIN CallWords : CallWords[i] = "")
        THEN result.status = "ProgrammingError" /\ Returned = {}
        ELSE /\ result.status = "ok"
             /\ \A c \in Candidates :
                    (c \in Returned) <=>
                        /\ Lexemes(CallWords) # {}
                        /\ Lexemes(CallWords) \subseteq VectorLexemes(Info(c))

C2_Witness ==
    /\ result.status = "ok"
    /\ \E i \in DOMAIN CallWords : CallWords[i] \in StopWords
    /\ Lexemes(CallWords) # {}
    /\ Returned # {}
    /\ Returned # Candidates

\* C3: with an index other than "All" every returned product has a
\* product_categories row for that index; with "All" every product whose text
\* matches is returned, whatever its categories.
C3_CategoryExclusive ==
    (Searched /\ call.fn = "find_products") =>
        /\ call.index # "All" =>
              \A a \in Returned :
                  [asin |-> a, cat_name |-> call.index] \in product_categories
        /\ (call.index = "All" /\ result.status = "ok") =>
              Returned = {a \in DOMAIN products :
                              TsMatch(ProductInfo(a), ToTsQuery(CallWords))}

C3_Witness ==
    /\ call.fn = "find_products"
    /\ call.index # "All"
    /\ result.status = "ok"
    /\ Returned # {}
    /\ \E a \in DOMAIN products \ Returned :
          /\ TsMatch(ProductInfo(a), ToTsQuery(CallWords))
          /\ \E r \in product_categories : r.asin = a

\* C4 as stated: a blank query is rejected with InvalidQueryError and no
\* statement reaches the store.
C4_Original ==
    (Searched /\ Blank(call.query)) =>
        result.status = "InvalidQueryError" /\ result.statements = 0

\* C4 amended: a blank query is not rejected: its single empty word is sent
\* as the search terms, the statement is executed and returns no row.
C4_BlankQueryReturnsNothing ==
    (Searched /\ Blank(call.query)) =>
        /\ result.status = "ok"
        /\ result.terms = <<"">>
        /\ result.statements = 1
        /\ result.rows = <<>>

C4_Witness ==
    /\ Searched
    /\ Len(call.query) >= 2
    /\ Blank(call.query)
    /\ Candidates # {}
    /\ result.rows = <<>>

\* C5 as stated: a category that is not in the categories table makes
\* find_products fail with UnknownCategoryError.
C5_Original ==
    (Searched /\ call.fn = "find_products" /\ call.index \notin categories \cup {"All"}) =>
        result.status = "UnknownCategoryError"

\* C5 amended: with a category that is not in the categories table the
\* filtered statement is executed as for any category and returns no row.
C5_UnknownCategoryEmpty ==
    (Searched /\ call.fn = "find_products" /\ call.index \notin categories \cup {"All"}) =>
        /\ result.status \in {"ok", "ProgrammingError"}
        /\ result.statements = 1
        /\ result.rows = <<>>

C5_Witness ==
    /\ call.fn = "find_products"
    /\ call.index \notin categories \cup {"All"}
    /\ categories # {}
    /\ result.status = "ok"
    /\ result.rows = <<>>
    /\ \E a \in DOMAIN products : TsMatch(ProductInfo(a), ToTsQuery(CallWords))

Repeated == prevResult.status # "none"

\* C6 as stated: the same search run twice on an unchanged store returns the
\* identical sequence, ties included.
C6_Original == Repeated => result = prevResult

\* C6 amended: the same search run twice returns the same rows with the same
\* relevancies, and at every position the two sequences hold rows of equal
\* relevancy; rows of equal relevancy may change places.
C6_SameUpToTies ==
    Repeated =>
        /\ result.status = prevResult.status
        /\ Len(result.rows) = Len(prevResult.rows)
        /\ Returned = {prevResult.rows[i].id : i \in DOMAIN prevResult.rows}
        /\ \A i \in DOMAIN result.rows :
              result.rows[i].relevancy = prevResult.rows[i].relevancy
        /\ \A i, j \in DOMAIN result.rows :
              result.rows[i].id = prevResult.rows[j].id =>
                  result.rows[i].relevancy = prevResult.rows[j].relevancy

C6_Witness ==
    /\ Repeated
    /\ Len(result.rows) >= 2
    /\ result.rows[1].relevancy = result.rows[2].relevancy
    /\ result.rows # prevResult.rows

\* C7 as stated: the words joined into the search terms of a non-blank query
\* are never empty.
C7_Original ==
    (Searched /\ ~Blank(call.query)) =>
        \A i \in DOMAIN result.terms : result.terms[i] # ""

\* C8 as stated: find_reviews ranks with the default weights, 1.0 for the
\* summary and 0.4 for the review text.
C8_Original ==
    (call.fn = "find_reviews" /\ result.status = "ok") =>
        \A i \in DOMAIN result.rows :
            result.rows[i].relevancy =
                TsRank(DefaultWeights, ReviewInfo(result.rows[i].id),
                       ToTsQuery(CallWords))

-----------------------------------------------------------------------------
(* Properties of the account handlers *)

FavoriteCalls == {"update_favorite_product", "update_favorite_review"}

\* C9 as stated: however the calls interleave, a (user, item) pair never has
\* more than one favorite row, one() never fails, and a call answers
\* "Favorited" exactly when the pair had no row when the call began.
C9_Original ==
    /\ \A u \in FavUsers :
          /\ \A a \in FavAsins : Cardinality(ProductFavorites(u, a)) <= 1
          /\ \A r \in FavReviewIds : Cardinality(ReviewFavorites(u, r)) <= 1
    /\ \A p \in Requests :
          (req[p].fn \in FavoriteCalls /\ response[p] # "none") =>
              /\ response[p] \in {"Favorited", "Unfavorited"}
              /\ response[p] = "Favorited" <=> before[p] = 0

\* C10 as stated: however the calls interleave, no two users rows share an
\* email.
C10_Original ==
    \A u1, u2 \in users : u1.email = u2.email => u1 = u2

====
